---- MODULE Spec2Model ----
(***************************************************************************)
(* Model of the deprecation automation: main() starts the Node, Python and *)
(* Go evaluations (Tool.checkVersions / GoTool.checkVersions) and joins    *)
(* them with Promise.all.  Every await on a gateway (EOL feed, manifest,   *)
(* issue tracker, Slack webhook) is one step of an evaluation.             *)
(*                                                                         *)
(* Time is counted in half days (an instant is 2*day + half); the feed's   *)
(* dates are calendar days, i.e. instants at midnight.  A month of the     *)
(* model calendar has DaysPerMonth days.                                   *)
(***************************************************************************)
EXTENDS Integers, Sequences, FiniteSets, TLC

VARIABLES feed, manifest, preOpen, now, webhookUrl,
          started, ev, mainPc, jobFailed,
          probe

vars == <<feed, manifest, preOpen, now, webhookUrl, started, ev, mainPc, jobFailed,
          probe>>

\* `probe` holds the arguments and the result of one function applied on its
\* own; a run never touches it.
inputs == <<feed, manifest, preOpen, now, webhookUrl, probe>>

\* ------------------------------------------------------------------ bounds

MaxRuns == 2

DaysPerMonth == 30

Runs == 1..MaxRuns

\* ------------------------------------------------------------ the tools

Tools == {"Node", "Python", "Go"}

StdTools == {"Node", "Python"}

\* ------------------------------------------------------------ dates

HalfDaysPerMonth == 2 * DaysPerMonth

Midnight(day) == 2 * day

Date(day) == [isDate |-> TRUE, day |-> day]

\* The feed's `eol: false` (Go).
EolFalse == [isDate |-> FALSE, day |-> 0]

EpochDay == 0 - 20 * DaysPerMonth

\* new Date(x): a date string is midnight of its day; new Date(false) is the epoch.
NewDate(d) == IF d.isDate THEN Midnight(d.day) ELSE Midnight(EpochDay)

Trunc(a, b) == IF a >= 0 THEN a \div b ELSE 0 - ((0 - a) \div b)

\* calculateSixMonthsFromGivenDate: dayjs(date).add(6, 'month'), as a day.
calculateSixMonthsFromGivenDate(day) == day + 6 * DaysPerMonth

\* dayjs(givenDate).diff(currentDate, 'month'): whole months, truncated.
MonthDiff(given, current) == Trunc(given - current, HalfDaysPerMonth)

HorizonMonths == 6

\* The same test with the difference taken in days.
isDateMoreThanSixDaysAway(instant, current) == Trunc(instant - current, 2) > HorizonMonths

isDateMoreThanSixMonthsAway(instant, current) == MonthDiff(instant, current) > HorizonMonths

dateGte(instant, current) == current <= instant

\* ------------------------------------------------------------ versions

NoVersion == <<0, 0, 0>>

V9 == <<1, 9, 0>>

V10 == <<1, 10, 0>>

V11 == <<1, 11, 0>>

\* A string that is not a semantic version.
BadVersion == <<0 - 1, 0, 0>>

\* semver parses its arguments and throws a TypeError on an invalid version.
semverValid(v) == v[1] >= 0

\* The comparison of the version strings character by character, where "9"
\* sorts after "10": a one-digit part counts as its digit followed by a zero.
lexicalGte(a, b) ==
  LET Key(n) == IF n < 10 THEN 10 * n ELSE n
  IN \/ Key(a[1]) > Key(b[1])
     \/ a[1] = b[1] /\ Key(a[2]) > Key(b[2])
     \/ a[1] = b[1] /\ a[2] = b[2] /\ Key(a[3]) >= Key(b[3])

\* semver.gte(a, b): numeric precedence of major, minor, patch.
semverGte(a, b) ==
  \/ a[1] > b[1]
  \/ a[1] = b[1] /\ a[2] > b[2]
  \/ a[1] = b[1] /\ a[2] = b[2] /\ a[3] >= b[3]

\* ------------------------------------------------------------ feed records

Rec(latest, eol, rel, lts) ==
  [latest |-> latest, eol |-> eol, latestReleaseDate |-> rel, lts |-> lts]

NoRecord == Rec(NoVersion, EolFalse, 0, "undefined")

Reverse(s) == [i \in 1..Len(s) |-> s[Len(s) + 1 - i]]

\* Tool.filterApiData: keep the records whose eol is not before now (Node: and
\* whose lts is not false), then reverse.
filterApiData(name, data, current) ==
  LET Keep(item) ==
        IF name = "Node"
        THEN dateGte(NewDate(item.eol), current) /\ item.lts # "false"
        ELSE dateGte(NewDate(item.eol), current)
  IN Reverse(SelectSeq(data, Keep))

\* Element 0 of an array, undefined (NoRecord) when there is none.
At(s, i, none) == IF i <= Len(s) THEN s[i] ELSE none

ToolSelect(name, data, current) == At(filterApiData(name, data, current), 1, NoRecord)

\* The newest Go record instead of the second.
GoSelectFirst(data) == At(data, 1, NoRecord)

\* `goVersionsFromEolApi[1]`
GoSelect(data) == At(data, 2, NoRecord)

versionClosestToEol(name, data, current) ==
  IF name = "Go" THEN GoSelect(data) ELSE ToolSelect(name, data, current)

\* A catch block that answers with the reference version itself.
manifestCatchEcho(referenceVersion) == <<referenceVersion>>

\* The catch block of getVersionsManifestFromRepo: core.setFailed, `return []`.
manifestCatch(referenceVersion) == << >>

\* The filter with a comparison that never throws.
getVersionsManifestUnchecked(file, referenceVersion) ==
  LET Ge(version) == semverGte(version, referenceVersion)
  IN SelectSeq(Reverse(file), Ge)

\* ManifestRepository.getVersionsManifestFromRepo: the file reversed, then the
\* entries >= the reference version; a comparison that throws is caught.
getVersionsManifestFromRepo(file, referenceVersion) ==
  LET Ge(version) == semverGte(version, referenceVersion)
      throws == /\ file # << >>
                /\ \/ ~semverValid(referenceVersion)
                   \/ \E i \in 1..Len(file) : ~semverValid(file[i])
  IN IF throws THEN manifestCatch(referenceVersion) ELSE SelectSeq(Reverse(file), Ge)

\* ------------------------------------------------------------ issue content

NoDate == EolFalse

\* A title is its template and the values interpolated into it.
Title(template, name, latest, date) ==
  [template |-> template, tool |-> name, version |-> latest, date |-> date]

NoTitle == Title("none", "none", NoVersion, NoDate)

NoIssueContent == [title |-> NoTitle, label |-> "none"]

\* The mismatch issue without its version.
MismatchIssueUnversioned(name, v) ==
  [title |-> Title("is not in the manifest", name, NoVersion, NoDate),
   label |-> "manifest-version-mismatch"]

\* `[AUTOMATIC MESSAGE] ${name} version ${latest} is not in the manifest`
MismatchIssue(name, v) ==
  [title |-> Title("is not in the manifest", name, v.latest, NoDate),
   label |-> "manifest-version-mismatch"]

\* The deprecation notice with a title that does not name the tool.
DeprecationIssueAnyTool(name, v) ==
  [title |-> Title("is losing support on", "the tool", v.latest, v.eol),
   label |-> "deprecation-notice"]

\* The deprecation notice without its date.
DeprecationIssueUndated(name, v) ==
  [title |-> Title("is losing support on", name, v.latest, NoDate),
   label |-> "deprecation-notice"]

\* `[AUTOMATIC MESSAGE] ${name} version ${latest} is losing support on ${eol}`
DeprecationIssue(name, v) ==
  [title |-> Title("is losing support on", name, v.latest, v.eol),
   label |-> "deprecation-notice"]

\* `[AUTOMATIC MESSAGE] Go version ${latest} is losing support soon!`
GoDeprecationIssue(v) ==
  [title |-> Title("is losing support soon!", "Go", v.latest, NoDate),
   label |-> "deprecation-notice"]

\* `${versionClosestToEol.latest}`: the version string "major.minor.patch".
VersionText(v) == ToString(v[1]) \o "." \o ToString(v[2]) \o "." \o ToString(v[3])

\* `${versionClosestToEol.eol}`: the feed's date string, or "false".
DateText(d) == IF d.isDate THEN "day" \o ToString(d.day) ELSE "false"

\* The string the template literal of a title evaluates to (the back quotes
\* around the version are written as single quotes).
TitleText(title) ==
  "[AUTOMATIC MESSAGE] " \o title.tool \o " version '" \o VersionText(title.version)
    \o "' " \o title.template
    \o (IF title.template = "is losing support on" THEN " " \o DateText(title.date) ELSE "")

\* ------------------------------------------------------------ decisions

\* `if (!semver.gte(versionClosestToEol.latest, earliestVersionInManifest))`
IsMismatch(latest, inManifest) == ~semverGte(latest, inManifest)

\* The policy path without its early return.
NeverBeyond(name, v, current) == FALSE

\* The horizon test applied to Go as well.
BeyondHorizonEveryTool(name, v, current) ==
  isDateMoreThanSixMonthsAway(NewDate(v.eol), current)

\* The early return "has more than 6 months left before EOL": Tool.checkVersions
\* tests V.eol; GoTool.checkVersions has no such test.
BeyondHorizon(name, v, current) ==
  IF name = "Go" THEN FALSE
  ELSE isDateMoreThanSixMonthsAway(NewDate(v.eol), current)

DeprecationFor(name, v) ==
  IF name = "Go" THEN GoDeprecationIssue(v) ELSE DeprecationIssue(name, v)

\* The dedup result ignored.
AfterDedupAlways(found) == "create"

\* The chat notification ahead of createIssue.
AfterDedupNotifyFirst(found) == IF found THEN "done" ELSE "send"

\* `if (await findIssueByTitle(title)) { return; }`
AfterDedup(found) == IF found THEN "done" ELSE "create"

\* A rejected lookup taken for "no such issue".
AfterLookupErrorSwallowed == "create"

\* The same await when findIssueByTitle rejects: no catch surrounds it, so the
\* rejection propagates out of checkVersions.
AfterLookupError == "rejected"

\* checkVersions from its first to its last statement when every gateway call
\* succeeds, `open` being the titles of the open issues: the version under
\* evaluation, the issue content composed and the way the method ends.
Evaluate(t, data, file, open, current) ==
  LET v == versionClosestToEol(t, data, current)
      m == getVersionsManifestFromRepo(file, v.latest)
      inManifest == At(m, 1, NoVersion)
      mismatch == IsMismatch(v.latest, inManifest)
      issue == IF mismatch THEN MismatchIssue(t, v) ELSE DeprecationFor(t, v)
      End(content, outcome) == [sel |-> v, issue |-> content, outcome |-> outcome]
  IN IF v = NoRecord \/ m = << >> THEN End(NoIssueContent, "Failed")
     ELSE IF ~mismatch /\ BeyondHorizon(t, v, current)
     THEN End(NoIssueContent, "NoActionNeeded")
     ELSE IF AfterDedup(issue.title \in open) = "done"
     THEN End(issue, "NotifySkippedDuplicate")
     ELSE End(issue, "NotifyCreated")

\* ------------------------------------------------------------ state

NewEval ==
  [pc |-> "idle", sel |-> NoRecord, ref |-> NoVersion, issue |-> NoIssueContent,
   outcome |-> "none", manifestRead |-> "none", dedup |-> "none",
   createCalls |-> 0, created |-> 0, chatCalls |-> 0,
   intents |-> 0, horizonTests |-> 0]

\* Evaluations that stop once main's catch has run.
RunnableUntilCaught(r, t) ==
  started[r] /\ ev[r][t].pc \notin {"idle", "done"} /\ mainPc[r] # "caught"

\* An evaluation started by main runs until its own promise settles.
Runnable(r, t) == started[r] /\ ev[r][t].pc \notin {"idle", "done"}

\* The open issues of the tracker: those open at the start and those created.
OpenTitles ==
  preOpen \cup {ev[p[1]][p[2]].issue.title :
                  p \in {q \in Runs \X Tools : ev[q[1]][q[2]].created > 0}}

\* `findIssueByTitle(title)`: an open issue of the tracker has this title.
findIssueByTitle(title) == title \in OpenTitles

\* ------------------------------------------------------------ inputs

NowInstant == Midnight(0) + 1

Near == Date(2 * DaysPerMonth)

Far == Date(10 * DaysPerMonth)

Past == Date(0 - 1)

Released == 0 - 12 * DaysPerMonth

Upcoming == 2 * DaysPerMonth

Sooner == Date(DaysPerMonth)

StdFeeds ==
  { <<Rec(V10, Near, Released, "true")>>,
    <<Rec(V10, Far, Released, "true")>>,
    <<Rec(V10, Near, Released, "true"), Rec(V11, Far, Released, "false")>>,
    <<Rec(V10, Past, Released, "true")>> }

GoFeeds ==
  { <<Rec(V11, Far, Released, "false")>>,
    <<Rec(V11, Far, Released, "false"), Rec(V10, EolFalse, Released, "false")>>,
    <<Rec(V11, Far, Released, "false"), Rec(V10, Near, Upcoming, "false")>> }

FeedsOf(t) == IF t = "Go" THEN GoFeeds ELSE StdFeeds

Manifests == { <<V10>>, <<V9>>, <<V10, V11>> }

\* Every title an evaluation of these inputs can compose.
TitlePool ==
  UNION { UNION { {MismatchIssue(t, f[i]).title, DeprecationFor(t, f[i]).title} :
                    i \in 1..Len(f) } : t \in Tools, f \in StdFeeds \cup GoFeeds }

\* ------------------------------------------------------------ main and the join

\* Promise.all in main: the first rejection runs the catch (core.setFailed) at
\* once; when the last of the three fulfils and none rejected, main returns.
Settle(r, t, outcome) ==
  IF mainPc[r] # "await" THEN mainPc[r]
  ELSE IF outcome = "Failed" THEN "caught"
  ELSE IF \A u \in Tools \ {t} : ev[r][u].pc = "done" THEN "resolved"
  ELSE "await"

\* The evaluation's promise settles with `outcome`; `failed` says core.setFailed
\* was called by the step itself.
Finish(r, t, e, outcome, failed) ==
  /\ ev' = [ev EXCEPT ![r][t] = [e EXCEPT !.pc = "done", !.outcome = outcome]]
  /\ mainPc' = [mainPc EXCEPT ![r] = Settle(r, t, outcome)]
  /\ jobFailed' = [jobFailed EXCEPT ![r] = @ \/ failed \/ Settle(r, t, outcome) = "caught"]

\* The evaluation goes on to its next await.
Continue(r, t, e, failed) ==
  /\ ev' = [ev EXCEPT ![r][t] = e]
  /\ jobFailed' = [jobFailed EXCEPT ![r] = @ \/ failed]
  /\ UNCHANGED mainPc

\* ------------------------------------------------------------ the evaluation

\* getVersionsFromApi resolves or rejects; then the version under evaluation is
\* selected, and reading `.latest` of undefined throws.
FetchFeed(r, t) ==
  /\ Runnable(r, t)
  /\ ev[r][t].pc = "feed"
  /\ \E ok \in BOOLEAN :
       LET v == versionClosestToEol(t, feed[t], now)
       IN IF ~ok \/ v = NoRecord
          THEN Finish(r, t, ev[r][t], "Failed", FALSE)
          ELSE Continue(r, t, [ev[r][t] EXCEPT !.pc = "manifest", !.sel = v], FALSE)
  /\ UNCHANGED <<inputs, started>>

\* The policy part of checkVersions: the horizon test (Tool.checkVersions only)
\* and, within the horizon, the deprecation issue.
PolicyPart(r, t, e, failed) ==
  LET e2 == [e EXCEPT !.horizonTests = IF t = "Go" THEN @ ELSE @ + 1]
  IN IF BeyondHorizon(t, e.sel, now)
     THEN Finish(r, t, e2, "NoActionNeeded", failed)
     ELSE Continue(r, t, [e2 EXCEPT !.pc = "dedup",
                                    !.issue = DeprecationFor(t, e.sel),
                                    !.intents = @ + 1], failed)

\* getVersionsManifestFromRepo resolves with the filtered manifest, or with []
\* after core.setFailed; `[0].version` of an empty result throws.  Then the
\* mismatch test and, on a match, the horizon test.
FetchManifest(r, t) ==
  /\ Runnable(r, t)
  /\ ev[r][t].pc = "manifest"
  /\ \E ok \in BOOLEAN :
       LET e0 == [ev[r][t] EXCEPT !.manifestRead = IF ok THEN "ok" ELSE "failed"]
           data == IF ok THEN getVersionsManifestFromRepo(manifest[t], e0.sel.latest)
                   ELSE manifestCatch(e0.sel.latest)
           inManifest == At(data, 1, NoVersion)
           e1 == [e0 EXCEPT !.ref = inManifest]
       IN IF data = << >>
          THEN Finish(r, t, e0, "Failed", ~ok)
          ELSE IF IsMismatch(e0.sel.latest, inManifest)
          THEN Continue(r, t, [e1 EXCEPT !.pc = "dedup",
                                         !.issue = MismatchIssue(t, e0.sel),
                                         !.intents = @ + 1], FALSE)
          ELSE PolicyPart(r, t, e1, FALSE)
  /\ UNCHANGED <<inputs, started>>

\* findIssueByTitle resolves (found or not) or rejects; the lookup is awaited
\* outside any try block, so a rejection leaves checkVersions at once.
Dedup(r, t) ==
  /\ Runnable(r, t)
  /\ ev[r][t].pc = "dedup"
  /\ \E ok \in BOOLEAN :
       LET e == ev[r][t]
           found == findIssueByTitle(e.issue.title)
           after == IF ok THEN AfterDedup(found) ELSE AfterLookupError
       IN IF ~ok /\ after = "rejected"
          THEN Finish(r, t, [e EXCEPT !.dedup = "error"], "Failed", FALSE)
          ELSE IF ~ok
          THEN Continue(r, t, [e EXCEPT !.pc = after, !.dedup = "error"], FALSE)
          ELSE IF after = "done"
          THEN Finish(r, t, [e EXCEPT !.dedup = IF found THEN "found" ELSE "notfound"],
                      "NotifySkippedDuplicate", FALSE)
          ELSE Continue(r, t, [e EXCEPT !.pc = after,
                                        !.dedup = IF found THEN "found" ELSE "notfound"],
                        FALSE)
  /\ UNCHANGED <<inputs, started>>

\* GitHubIssue.createIssue: octokit.issues.create; a failure is caught and
\* reported with core.setFailed, and the method returns.
CreateIssue(r, t) ==
  /\ Runnable(r, t)
  /\ ev[r][t].pc = "create"
  /\ \E ok \in BOOLEAN :
       LET e == ev[r][t]
       IN Continue(r, t, [e EXCEPT !.pc = "send",
                                   !.createCalls = @ + 1,
                                   !.created = IF ok THEN @ + 1 ELSE @], ~ok)
  /\ UNCHANGED <<inputs, started>>

\* The mismatch branch running on into the policy part.
AfterNotifiedFallThrough(label) ==
  IF label = "manifest-version-mismatch" THEN "policy" ELSE "return"

\* The `return;` that follows sendIssueInfoToSlack, in the mismatch branch as at
\* the end of checkVersions.
AfterNotified(label) == "return"

\* GitHubIssue.sendIssueToSlack / SlackMessage.sendMessage: without a webhook URL
\* core.setFailed and return; else webhook.send, whose failure is only logged.
\* Then checkVersions returns.
SendSlack(r, t) ==
  /\ Runnable(r, t)
  /\ ev[r][t].pc = "send"
  /\ LET e == IF webhookUrl THEN [ev[r][t] EXCEPT !.chatCalls = @ + 1] ELSE ev[r][t]
     IN IF AfterNotified(e.issue.label) = "return"
        THEN Finish(r, t, e, "NotifyCreated", ~webhookUrl)
        ELSE PolicyPart(r, t, e, ~webhookUrl)
  /\ UNCHANGED <<inputs, started>>

Step(r, t) ==
  \/ FetchFeed(r, t)
  \/ FetchManifest(r, t)
  \/ Dedup(r, t)
  \/ CreateIssue(r, t)
  \/ SendSlack(r, t)

\* ------------------------------------------------------------ runs

RunOver(r) == started[r] /\ \A t \in Tools : ev[r][t].pc = "done"

\* main(): the three checkVersions calls run up to their first await.
Launch(r) ==
  /\ started' = [started EXCEPT ![r] = TRUE]
  /\ ev' = [ev EXCEPT ![r] = [t \in Tools |-> [NewEval EXCEPT !.pc = "feed"]]]
  /\ UNCHANGED <<inputs, mainPc, jobFailed>>

\* The scheduler starts the next run after the previous one has ended.
StartNextRun(r) ==
  /\ r > 1 /\ ~started[r] /\ RunOver(r - 1)
  /\ Launch(r)

\* A run is started (cron or workflow_dispatch) while the previous one may
\* still be in progress.
StartOverlappingRun(r) ==
  /\ r > 1 /\ ~started[r] /\ started[r - 1]
  /\ Launch(r)

InitInputs ==
  /\ feed \in [Tools -> StdFeeds \cup GoFeeds]
  /\ \A t \in Tools : feed[t] \in FeedsOf(t)
  /\ manifest \in [Tools -> Manifests]
  /\ preOpen \in {{}, TitlePool}
  /\ now = NowInstant
  /\ webhookUrl \in BOOLEAN
  \* Inputs that are never read are not varied: the manifest of a tool whose
  \* feed yields no version, the webhook when every title is already open.
  /\ preOpen # {} => webhookUrl
  /\ \A t \in Tools : versionClosestToEol(t, feed[t], now) = NoRecord => manifest[t] = <<V10>>

NoProbe == [kind |-> "none"]

InitRun ==
  /\ probe = NoProbe
  /\ started = [r \in Runs |-> r = 1]
  /\ ev = [r \in Runs |-> [t \in Tools |->
             IF r = 1 THEN [NewEval EXCEPT !.pc = "feed"] ELSE NewEval]]
  /\ mainPc = [r \in Runs |-> "await"]
  /\ jobFailed = [r \in Runs |-> FALSE]

Init == InitInputs /\ InitRun

Next == \E r \in Runs, t \in Tools : Step(r, t)

Spec == Init /\ [][Next]_vars

\* A pending gateway call eventually returns or fails: while some evaluation
\* can take a step, a step is eventually taken.
Fairness == WF_vars(Next)

\* One run with no issue open at the start and every manifest holding V10.
InitIsolation ==
  /\ Init
  /\ preOpen = {}
  /\ manifest = [t \in Tools |-> <<V10>>]

FairSpec == InitIsolation /\ [][Next]_vars /\ Fairness

\* ------------------------------------------------------------ repeated runs

\* Runs with the same feed, manifest and date.  Node's inputs vary; Python's feed
\* has no supported record and Go's feed has one record.
InitRepeatInputs ==
  /\ feed \in [Tools -> StdFeeds \cup GoFeeds]
  /\ feed["Node"] \in StdFeeds
  /\ feed["Python"] = <<Rec(V10, Past, Released, "true")>>
  /\ feed["Go"] = <<Rec(V11, Far, Released, "false")>>
  /\ manifest \in [Tools -> Manifests]
  /\ manifest["Python"] = <<V10>> /\ manifest["Go"] = <<V10>>
  /\ preOpen \in {{}, TitlePool}
  /\ now = NowInstant
  /\ webhookUrl \in BOOLEAN

InitRepeat == InitRepeatInputs /\ InitRun

NextSequential == Next \/ \E r \in Runs : StartNextRun(r)

SpecSequential == InitRepeat /\ [][NextSequential]_vars

NextOverlapping == Next \/ \E r \in Runs : StartOverlappingRun(r)

SpecOverlapping == InitRepeat /\ [][NextOverlapping]_vars

\* ------------------------------------------------------------ malformed versions

\* One run in which V.latest or a manifest entry may be malformed.
MalformedFeeds(t) ==
  IF t = "Go"
  THEN { <<Rec(V11, Far, Released, "false"), Rec(v, Near, Upcoming, "false")>> :
           v \in {V10, BadVersion} }
  ELSE { <<Rec(v, Near, Released, "true")>> : v \in {V10, BadVersion} }

MalformedManifests == { <<V10>>, <<BadVersion>>, <<BadVersion, V11>> }

InitMalformed ==
  /\ feed \in [Tools -> UNION {MalformedFeeds(t) : t \in Tools}]
  /\ \A t \in Tools : feed[t] \in MalformedFeeds(t)
  /\ manifest \in [Tools -> MalformedManifests]
  /\ preOpen = {}
  /\ now = NowInstant
  /\ webhookUrl = TRUE
  /\ InitRun

SpecMalformed == InitMalformed /\ [][Next]_vars

\* ------------------------------------------------------------ functions on their own

\* No run in progress.
InitIdle ==
  /\ feed = [t \in Tools |-> << >>]
  /\ manifest = [t \in Tools |-> << >>]
  /\ preOpen = {}
  /\ webhookUrl = FALSE
  /\ started = [r \in Runs |-> FALSE]
  /\ ev = [r \in Runs |-> [t \in Tools |-> NewEval]]
  /\ mainPc = [r \in Runs |-> "await"]
  /\ jobFailed = [r \in Runs |-> FALSE]

run == <<feed, manifest, preOpen, webhookUrl, started, ev, mainPc, jobFailed>>

Situations == {"ManifestMismatch", "DeprecationNotice"}

VMajor11 == <<11, 1, 0>>

ProbeVersions == {V9, V10, V11, VMajor11}

\* The issue content the two checkVersions methods compose for a situation.
Compose(name, situation, v) ==
  IF situation = "ManifestMismatch" THEN MismatchIssue(name, v) ELSE DeprecationFor(name, v)

\* What a title is composed from: the tool, the situation and the record V.  The
\* V of Node and Python has passed the filter, so its eol is a date.
IntentInputs ==
  { i \in { [tool |-> t, situation |-> s, rec |-> Rec(v, e, Released, "true")] :
               t \in Tools, s \in Situations, v \in ProbeVersions,
               e \in {Near, Sooner, EolFalse} } :
      i.tool = "Go" \/ i.rec.eol.isDate }

InitTitles ==
  /\ InitIdle
  /\ now = NowInstant
  /\ \E a \in IntentInputs, b \in IntentInputs :
       probe = [kind |-> "titles", left |-> a, right |-> b,
                leftTitle |-> "", rightTitle |-> "", composed |-> FALSE]

ComposeTitles ==
  /\ probe.kind = "titles"
  /\ ~probe.composed
  /\ probe' = [probe EXCEPT
        !.leftTitle = TitleText(Compose(probe.left.tool, probe.left.situation,
                                        probe.left.rec).title),
        !.rightTitle = TitleText(Compose(probe.right.tool, probe.right.situation,
                                         probe.right.rec).title),
        !.composed = TRUE]
  /\ UNCHANGED <<run, now>>

SpecTitles == InitTitles /\ [][ComposeTitles]_vars

\* Feeds of Node and Python in any order, with records that expired yesterday,
\* expire today or later, or carry `eol: false`; read at midnight or at midday.
MaxFeed == 2

Today == Date(0)

ProbeRecords ==
  { Rec(v, e, Released, l) : v \in {V10, V11}, e \in {Past, Today, Near, Far, EolFalse},
                             l \in {"true", "false"} }

ProbeFeeds == UNION { [1..n -> ProbeRecords] : n \in 0..MaxFeed }

InitSelect ==
  /\ InitIdle
  /\ now \in {Midnight(0), NowInstant}
  /\ \E t \in StdTools, d \in ProbeFeeds :
       probe = [kind |-> "select", tool |-> t, data |-> d,
                selected |-> NoRecord, done |-> FALSE]

\* `const versionClosestToEol = this.filterApiData(...)[0]`
SelectVersion ==
  /\ probe.kind = "select"
  /\ ~probe.done
  /\ probe' = [probe EXCEPT !.selected = versionClosestToEol(probe.tool, probe.data, now),
                            !.done = TRUE]
  /\ UNCHANGED <<run, now>>

SpecSelect == InitSelect /\ [][SelectVersion]_vars

\* Dates from two months back to MaxProbeMonths months ahead, tested against
\* the horizon at midnight or at midday.
MaxProbeMonths == 8

ProbeDays == (0 - 2 * DaysPerMonth) .. (MaxProbeMonths * DaysPerMonth)

InitHorizon ==
  /\ InitIdle
  /\ now \in {Midnight(0), NowInstant}
  /\ \E d \in ProbeDays :
       probe = [kind |-> "horizon", day |-> d, beyond |-> FALSE, done |-> FALSE]

\* `isDateMoreThanSixMonthsAway(new Date(versionClosestToEol.eol))`
TestHorizon ==
  /\ probe.kind = "horizon"
  /\ ~probe.done
  /\ probe' = [probe EXCEPT
        !.beyond = isDateMoreThanSixMonthsAway(NewDate(Date(probe.day)), now),
        !.done = TRUE]
  /\ UNCHANGED <<run, now>>

SpecHorizon == InitHorizon /\ [][TestHorizon]_vars

\* Two Go feeds that agree on latest and latestReleaseDate of every record and
\* may differ in eol and lts, evaluated against the same manifest and tracker.
GoEols == {Near, Far, EolFalse}

GoLts == {"true", "false"}

GoShapes ==
  { <<[latest |-> V11, rel |-> Released]>> } \cup
  { <<[latest |-> V11, rel |-> Released], [latest |-> v, rel |-> d]>> :
      v \in {V10, V11}, d \in {Released, Upcoming} }

GoFeedsOfShape(shape) ==
  { f \in [1..Len(shape) -> {Rec(v, e, d, l) : v \in {V10, V11}, e \in GoEols,
                                                d \in {Released, Upcoming}, l \in GoLts}] :
      \A i \in 1..Len(shape) : /\ f[i].latest = shape[i].latest
                                /\ f[i].latestReleaseDate = shape[i].rel }

NoEnd == [sel |-> NoRecord, issue |-> NoIssueContent, outcome |-> "none"]

InitGoPair ==
  /\ InitIdle
  /\ now = NowInstant
  /\ \E shape \in GoShapes, file \in Manifests, open \in {{}, TitlePool} :
       \E a \in GoFeedsOfShape(shape), b \in GoFeedsOfShape(shape) :
         probe = [kind |-> "gopair", left |-> a, right |-> b, file |-> file, open |-> open,
                  leftEnd |-> NoEnd, rightEnd |-> NoEnd, done |-> FALSE]

\* GoTool.checkVersions on each of the two feeds.
EvaluateGoPair ==
  /\ probe.kind = "gopair"
  /\ ~probe.done
  /\ probe' = [probe EXCEPT
        !.leftEnd = Evaluate("Go", probe.left, probe.file, probe.open, now),
        !.rightEnd = Evaluate("Go", probe.right, probe.file, probe.open, now),
        !.done = TRUE]
  /\ UNCHANGED <<run, now>>

SpecGoPair == InitGoPair /\ [][EvaluateGoPair]_vars

\* ------------------------------------------------------------ properties

Evals == Runs \X Tools

Created(e) == e.pc = "done" /\ e.outcome = "NotifyCreated"

\* The manifest's reference entry equals V.latest: the match of the policy path.
ManifestMatches(e) == e.ref # NoVersion /\ e.ref = e.sel.latest

\* Whole months from now to the day `d`, as the claims count the horizon.
BeyondSixMonths(d) == NewDate(d) - now >= (HorizonMonths + 1) * HalfDaysPerMonth

\* C1: when the dedup lookup finds an open issue with the composed title, the
\* evaluation ends in NotifySkippedDuplicate, and it has called neither
\* createIssue nor the chat webhook.
C1_DuplicateSkipsWithoutWrites ==
  \A r \in Runs, t \in Tools :
    ev[r][t].dedup = "found" =>
      /\ ev[r][t].pc = "done"
      /\ ev[r][t].outcome = "NotifySkippedDuplicate"
      /\ ev[r][t].createCalls = 0
      /\ ev[r][t].chatCalls = 0

\* A run in which all three tools found their duplicate, for both situations.
C1_Witness ==
  /\ \A t \in Tools : ev[1][t].dedup = "found" /\ ev[1][t].outcome = "NotifySkippedDuplicate"
  /\ ev[1]["Node"].issue.label = "manifest-version-mismatch"
  /\ ev[1]["Python"].issue.label = "deprecation-notice"

\* The issues created with this title over all runs.
IssuesCreated(title) ==
  Cardinality({p \in Evals : ev[p[1]][p[2]].created > 0 /\ ev[p[1]][p[2]].issue.title = title})

\* The createIssue calls made with this title over all runs.
CreateCalls(title) ==
  Cardinality({p \in Evals : ev[p[1]][p[2]].createCalls > 0 /\ ev[p[1]][p[2]].issue.title = title})

\* C2: over sequential runs with the same inputs, an evaluation of a tool that
\* ended in NotifyCreated is followed, for that tool, only by evaluations that end
\* in NotifySkippedDuplicate (a later evaluation whose gateway failed aside), and
\* at most one issue is created per title.
C2_CreatedThenOnlySkipped ==
  /\ \A t \in Tools, r1 \in Runs, r2 \in Runs :
       (r1 < r2 /\ Created(ev[r1][t]) /\ ev[r2][t].pc = "done" /\ ev[r2][t].outcome # "Failed")
         => ev[r2][t].outcome = "NotifySkippedDuplicate"
  /\ \A title \in TitlePool : IssuesCreated(title) <= 1

\* C3: at most one createIssue call is made per title, under every interleaving
\* of the evaluations of overlapping runs.
C3_OneCreatePerTitle == \A title \in TitlePool : CreateCalls(title) <= 1

NewerThanAll(latest, file) ==
  \A i \in 1..Len(file) : semverGte(latest, file[i]) /\ latest # file[i]

\* C4: when V.latest is newer than every version of the manifest, the manifest
\* was read, and the lookup reported no open issue with the mismatch title, the
\* evaluation ends in NotifyCreated with category ManifestMismatch.
C4_NewerThanManifestIsMismatch ==
  \A r \in Runs, t \in Tools :
    ( /\ ev[r][t].pc = "done"
      /\ ev[r][t].manifestRead = "ok"
      /\ NewerThanAll(ev[r][t].sel.latest, manifest[t])
      /\ MismatchIssue(t, ev[r][t].sel).title \notin preOpen
      /\ ev[r][t].dedup # "error" )
    => /\ ev[r][t].outcome = "NotifyCreated"
       /\ ev[r][t].issue.label = "manifest-version-mismatch"

\* C5: for Node and Python, when the manifest's reference entry equals V.latest,
\* V.eol is not beyond the 6-month horizon and no open issue has the composed
\* title (the lookup itself not failing), the evaluation ends in NotifyCreated
\* with the label deprecation-notice and a title that carries V.latest.
C5_WithinHorizonCreatesNotice ==
  \A r \in Runs, t \in StdTools :
    ( /\ ManifestMatches(ev[r][t])
      /\ ~BeyondSixMonths(ev[r][t].sel.eol)
      /\ ev[r][t].pc = "done"
      /\ ev[r][t].dedup # "error"
      /\ DeprecationIssue(t, ev[r][t].sel).title \notin preOpen )
    => /\ ev[r][t].outcome = "NotifyCreated"
       /\ ev[r][t].createCalls = 1
       /\ ev[r][t].issue.label = "deprecation-notice"
       /\ ev[r][t].issue.title.template = "is losing support on"
       /\ ev[r][t].issue.title.tool = t
       /\ ev[r][t].issue.title.version = ev[r][t].sel.latest

\* Node and Python both created their deprecation notice for V.latest.
C5_Witness ==
  \A t \in StdTools :
    /\ Created(ev[1][t]) /\ ev[1][t].created = 1
    /\ ManifestMatches(ev[1][t])
    /\ ev[1][t].sel.eol = Near
    /\ ev[1][t].issue.title.version = V10
    /\ ev[1][t].issue.label = "deprecation-notice"

GoHorizonDate(v) == Date(calculateSixMonthsFromGivenDate(v.latestReleaseDate))

\* C7: for Go with a matching manifest, when latestReleaseDate + 6 months is
\* beyond the 6-month horizon the evaluation ends in NoActionNeeded and composes
\* and creates no issue.
C7_GoHorizonOnReleaseDate ==
  \A r \in Runs :
    (ManifestMatches(ev[r]["Go"]) /\ BeyondSixMonths(GoHorizonDate(ev[r]["Go"].sel)))
    => /\ ev[r]["Go"].createCalls = 0
       /\ ev[r]["Go"].issue = NoIssueContent
       /\ ev[r]["Go"].pc = "done" /\ ev[r]["Go"].outcome = "NoActionNeeded"

\* C8: for Go, V is the feed record at index 1 (zero-based); when the manifest
\* matches V.latest, latestReleaseDate + 6 months is in the past and no open
\* issue has the composed title (the lookup itself not failing), the evaluation
\* ends in NotifyCreated with the label deprecation-notice, also when V.eol is
\* false.
C8_GoSecondRecordNotice ==
  \A r \in Runs :
    LET e == ev[r]["Go"]
    IN /\ e.sel # NoRecord => (Len(feed["Go"]) >= 2 /\ e.sel = feed["Go"][2])
       /\ ( /\ ManifestMatches(e)
            /\ NewDate(GoHorizonDate(e.sel)) < now
            /\ e.pc = "done"
            /\ e.dedup # "error"
            /\ GoDeprecationIssue(e.sel).title \notin preOpen )
          => /\ e.outcome = "NotifyCreated"
             /\ e.createCalls = 1
             /\ e.issue.label = "deprecation-notice"
             /\ e.issue.title.tool = "Go"
             /\ e.issue.title.version = e.sel.latest

\* Go created its notice for a record whose eol is false.
C8_Witness ==
  /\ Created(ev[1]["Go"]) /\ ev[1]["Go"].created = 1
  /\ ev[1]["Go"].sel.eol = EolFalse
  /\ ev[1]["Go"].sel = feed["Go"][2]
  /\ ManifestMatches(ev[1]["Go"])
  /\ NewDate(GoHorizonDate(ev[1]["Go"].sel)) < now

\* C9: when the evaluation of one tool has failed, each other tool of the run
\* still reaches its terminal outcome, and an evaluation that ends in
\* NotifyCreated has called createIssue and, with a webhook configured, the
\* webhook.
C9_Isolation ==
  /\ \A t \in Tools :
       ((\E u \in Tools \ {t} : ev[1][u].outcome = "Failed") ~> (ev[1][t].pc = "done"))
  /\ [](\A t \in Tools :
          Created(ev[1][t]) =>
            (ev[1][t].createCalls = 1 /\ (webhookUrl => ev[1][t].chatCalls = 1)))

\* Python failed at the manifest, main's catch has run, and Node and Go ended
\* in NotifyCreated.
C9_Witness ==
  /\ ev[1]["Python"].outcome = "Failed" /\ ev[1]["Python"].manifestRead = "failed"
  /\ mainPc[1] = "caught"
  /\ Created(ev[1]["Node"]) /\ ev[1]["Node"].created = 1
  /\ Created(ev[1]["Go"]) /\ ev[1]["Go"].created = 1

\* C10: whenever main's catch has signalled the failure of the job, all three
\* evaluations of the run have completed.
C10_FailureSignalledAfterAll ==
  \A r \in Runs : mainPc[r] = "caught" => \A t \in Tools : ev[r][t].pc = "done"

\* C11: when a run has ended, the job is marked failed if and only if at least
\* one of its three evaluations ended in Failed.
C11_FailedIffEvaluationFailed ==
  \A r \in Runs :
    RunOver(r) => (jobFailed[r] <=> \E t \in Tools : ev[r][t].outcome = "Failed")

\* C12: without a webhook URL the evaluation that created its issue ends in
\* NotifyCreated, and the skipped send does not mark the job failed: a run with no
\* webhook in which no evaluation failed and every createIssue call succeeded
\* is not marked failed.
C12_MissingWebhookNotFailure ==
  \A r \in Runs :
    ( /\ ~webhookUrl
      /\ RunOver(r)
      /\ \A t \in Tools :
           /\ ev[r][t].outcome # "Failed"
           /\ ev[r][t].created = ev[r][t].createCalls )
    => /\ ~jobFailed[r]
       /\ \A t \in Tools : ev[r][t].createCalls > 0 => ev[r][t].outcome = "NotifyCreated"

\* C13: an evaluation whose createIssue call failed ends in Failed and makes no
\* chat call.
C13_CreateFailureIsFatal ==
  \A r \in Runs, t \in Tools :
    (ev[r][t].pc = "done" /\ ev[r][t].createCalls > ev[r][t].created)
    => (ev[r][t].outcome = "Failed" /\ ev[r][t].chatCalls = 0)

\* C14: in an evaluation whose dedup lookup failed, createIssue is not called,
\* no chat notification is sent, and the evaluation ends in Failed.
C14_LookupFailureNeverCreates ==
  \A r \in Runs, t \in Tools :
    ev[r][t].dedup = "error"
    => /\ ev[r][t].pc = "done"
       /\ ev[r][t].outcome = "Failed"
       /\ ev[r][t].createCalls = 0
       /\ ev[r][t].chatCalls = 0

C14_Witness ==
  \E r \in Runs, t \in Tools :
    /\ ev[r][t].dedup = "error"
    /\ ev[r][t].issue.title \notin preOpen
    /\ ev[r][t].outcome = "Failed"

\* C15: an evaluation whose manifest read failed ends in Failed without a dedup
\* lookup, without a createIssue call and without a chat notification.
C15_ManifestFailureIsFatal ==
  \A r \in Runs, t \in Tools :
    ev[r][t].manifestRead = "failed"
    => /\ ev[r][t].pc = "done"
       /\ ev[r][t].outcome = "Failed"
       /\ ev[r][t].dedup = "none"
       /\ ev[r][t].createCalls = 0
       /\ ev[r][t].chatCalls = 0

C15_Witness ==
  \E r \in Runs, t \in Tools :
    /\ ev[r][t].manifestRead = "failed"
    /\ ev[r][t].outcome = "Failed"
    /\ jobFailed[r]

\* An evaluation on the policy path that has composed its deprecation notice.
ComposedNotice(e) == ManifestMatches(e) /\ e.dedup # "none"

\* C18 as stated: for every tool, Go included, the title of a DeprecationNotice
\* embeds the tool name, the version under evaluation and the EOL date, and the
\* intent carries the label deprecation-notice.
C18_EveryNoticeTitleHasEolDate ==
  \A r \in Runs, t \in Tools :
    ComposedNotice(ev[r][t])
    => /\ ev[r][t].issue.label = "deprecation-notice"
       /\ ev[r][t].issue.title.tool = t
       /\ ev[r][t].issue.title.version = ev[r][t].sel.latest
       /\ ev[r][t].issue.title.date.isDate
       /\ ev[r][t].issue.title.date = ev[r][t].sel.eol

\* C18 amended: every DeprecationNotice carries the label deprecation-notice and
\* a title embedding the tool name and the version under evaluation; the title
\* of Node and Python also embeds V's EOL date, the title of Go embeds no date.
C18_NoticeTitleContents ==
  \A r \in Runs, t \in Tools :
    ComposedNotice(ev[r][t])
    => /\ ev[r][t].issue.label = "deprecation-notice"
       /\ ev[r][t].issue.title.tool = t
       /\ ev[r][t].issue.title.version = ev[r][t].sel.latest
       /\ t # "Go" => /\ ev[r][t].issue.title.date.isDate
                      /\ ev[r][t].issue.title.date = ev[r][t].sel.eol
       /\ t = "Go" => ev[r][t].issue.title.date = NoDate

\* Node composed a notice with its EOL date, Go one for a record that has an
\* EOL date the title leaves out.
C18_Witness ==
  /\ ComposedNotice(ev[1]["Node"])
  /\ ev[1]["Node"].issue.title.date = Near
  /\ ComposedNotice(ev[1]["Go"])
  /\ ev[1]["Go"].sel.eol = Near
  /\ ev[1]["Go"].issue.title.date = NoDate

\* The (tool, version, situation) triple of an intent.
Triple(i) == <<i.tool, i.rec.latest, i.situation>>

\* C16: two intents whose (tool, version, situation) triples differ in at least
\* one component have different titles.
C16_TitleInjective ==
  (probe.kind = "titles" /\ probe.composed /\ Triple(probe.left) # Triple(probe.right))
  => probe.leftTitle # probe.rightTitle

\* The same tool and version in the two situations, and two versions whose
\* digits run together to the same string.
C16_Witness ==
  /\ probe.kind = "titles" /\ probe.composed
  /\ probe.leftTitle # probe.rightTitle
  /\ \/ /\ probe.left.tool = probe.right.tool
        /\ probe.left.rec = probe.right.rec
        /\ probe.left.situation = "ManifestMismatch"
        /\ probe.right.situation = "DeprecationNotice"
     \/ /\ probe.left.tool = probe.right.tool
        /\ probe.left.situation = probe.right.situation
        /\ probe.left.rec.latest = V11
        /\ probe.right.rec.latest = VMajor11

\* C17: two intents with the same (tool, version, situation) triple have the
\* same title, whatever the EOL date of their records.
C17_TitleFunctionOfTriple ==
  (probe.kind = "titles" /\ probe.composed /\ Triple(probe.left) = Triple(probe.right))
  => probe.leftTitle = probe.rightTitle

\* The calendar day of an instant.
DayOf(instant) == instant \div 2

\* A record whose eol is a date at or after today's date and, for Node, whose
\* lts is not false.
RetainedByRule(name, item, current) ==
  /\ item.eol.isDate
  /\ item.eol.day >= DayOf(current)
  /\ name = "Node" => item.lts # "false"

LastInFeedOrder(name, data, current) ==
  LET passing == {i \in 1..Len(data) : RetainedByRule(name, data[i], current)}
  IN IF passing = {} THEN NoRecord
     ELSE data[CHOOSE i \in passing : \A j \in passing : j <= i]

\* C19: for Node and Python, V is the last record in feed order whose eol is
\* at or after today and, for Node only, whose lts is not false; Python's lts
\* plays no part.
C19_SelectsLastRetained ==
  (probe.kind = "select" /\ probe.done)
  => probe.selected = LastInFeedOrder(probe.tool, probe.data, now)

\* C20: for Node and Python and every feed order, no record retained by the
\* filter has an eol date strictly earlier than the eol of the selected V.
C20_SelectsSoonestExpiring ==
  (probe.kind = "select" /\ probe.done /\ probe.selected # NoRecord)
  => LET retained == filterApiData(probe.tool, probe.data, now)
     IN \A i \in 1..Len(retained) :
          ~(NewDate(retained[i].eol) < NewDate(probe.selected.eol))

\* The records the filter retains.
RetainedRecords(name, data, current) ==
  LET kept == filterApiData(name, data, current)
  IN {kept[i] : i \in 1..Len(kept)}

\* C21: the at-or-after test compares calendar days: a record whose eol is
\* today's date is retained by the Node/Python filter at any time of day (Node:
\* unless its lts is false), and one whose eol is yesterday's date never is.
C21_ComparesCalendarDays ==
  (probe.kind = "select" /\ probe.done)
  => \A i \in 1..Len(probe.data) :
       LET item == probe.data[i]
       IN /\ (item.eol = Date(DayOf(now)) /\ (probe.tool = "Node" => item.lts # "false"))
             => item \in RetainedRecords(probe.tool, probe.data, now)
          /\ item.eol = Date(DayOf(now) - 1)
             => item \notin RetainedRecords(probe.tool, probe.data, now)

\* C22: the horizon test is true exactly when the date is strictly later than
\* now plus 6 calendar months: false at 6 months and 0 days, true at 6 months
\* and 1 day, false for every date in the past.
C22_HorizonBoundary ==
  (probe.kind = "horizon" /\ probe.done)
  => (probe.beyond <=> NewDate(Date(probe.day)) > now + HorizonMonths * HalfDaysPerMonth)

\* Semantic-version order: a <= b by major, then minor, then patch, as numbers.
VersionLeq(a, b) ==
  \/ a[1] < b[1]
  \/ a[1] = b[1] /\ a[2] < b[2]
  \/ a[1] = b[1] /\ a[2] = b[2] /\ a[3] <= b[3]

\* Scanning the manifest file from its last entry back, the first entry whose
\* version is >= `latest`; NoVersion when there is none.
ReferenceEntry(file, latest) ==
  LET atLeast == {i \in 1..Len(file) : VersionLeq(latest, file[i])}
  IN IF atLeast = {} THEN NoVersion
     ELSE file[CHOOSE i \in atLeast : \A j \in atLeast : j <= i]

MismatchPath(e) == e.issue.label = "manifest-version-mismatch"

PolicyPath(e) ==
  \/ e.issue.label = "deprecation-notice"
  \/ e.issue = NoIssueContent /\ e.pc = "done" /\ e.outcome = "NoActionNeeded"

\* C23: once the manifest has been read and has a reference entry (the first
\* entry, scanning in reverse, whose version is >= V.latest), the MismatchPath is
\* taken if and only if that entry's version is not <= V.latest in semantic-
\* version order; otherwise the PolicyPath is taken.  An entry that is below
\* V.latest as a version (1.9.0 against 1.10.0) is never the reference entry:
\* with no entry >= V.latest neither path is taken.
C23_MismatchRule ==
  \A r \in Runs, t \in Tools :
    LET e == ev[r][t]
        reference == ReferenceEntry(manifest[t], e.sel.latest)
    IN /\ (e.manifestRead = "ok" /\ reference # NoVersion)
          => /\ e.ref = reference
             /\ MismatchPath(e) <=> ~VersionLeq(reference, e.sel.latest)
             /\ PolicyPath(e) <=> VersionLeq(reference, e.sel.latest)
       /\ (e.manifestRead = "ok" /\ reference = NoVersion)
          => ~MismatchPath(e) /\ ~PolicyPath(e)

\* Node took the MismatchPath against a newer reference entry while Python, with
\* a reference entry equal to its V.latest, took the PolicyPath.
C23_Witness ==
  /\ ev[1]["Node"].manifestRead = "ok"
  /\ ev[1]["Node"].sel.latest = V10 /\ ev[1]["Node"].ref = V11
  /\ MismatchPath(ev[1]["Node"])
  /\ ev[1]["Python"].manifestRead = "ok"
  /\ ev[1]["Python"].ref = V10 /\ ev[1]["Python"].sel.latest = V10
  /\ PolicyPath(ev[1]["Python"])

\* C24: in one run an evaluation calls createIssue at most once and the chat
\* webhook at most once, composes at most one intent, and one that composed a
\* ManifestMismatch intent has not evaluated the horizon and has no
\* DeprecationNotice.
C24_OneIssueOnePath ==
  \A r \in Runs, t \in Tools :
    /\ ev[r][t].createCalls <= 1
    /\ ev[r][t].created <= 1
    /\ ev[r][t].chatCalls <= 1
    /\ ev[r][t].intents <= 1
    /\ ~(MismatchPath(ev[r][t]) /\ PolicyPath(ev[r][t]))
    /\ (ev[r][t].ref # NoVersion /\ ~VersionLeq(ev[r][t].ref, ev[r][t].sel.latest))
       => /\ ev[r][t].horizonTests = 0
          /\ ev[r][t].issue.label = "manifest-version-mismatch"

\* A mismatch evaluation that created its issue, notified the chat and ended.
C24_Witness ==
  \E r \in Runs, t \in StdTools :
    /\ MismatchPath(ev[r][t])
    /\ Created(ev[r][t])
    /\ ev[r][t].createCalls = 1 /\ ev[r][t].chatCalls = 1
    /\ ev[r][t].intents = 1 /\ ev[r][t].horizonTests = 0
    /\ ~BeyondSixMonths(ev[r][t].sel.eol)

\* C25: createIssue is called only after the feed fetch, the manifest fetch and
\* a dedup lookup of the composed title that returned not-found have completed
\* in that evaluation, and the chat notification is sent only after the
\* createIssue call has returned.
C25_GatewayOrder ==
  \A r \in Runs, t \in Tools :
    /\ (ev[r][t].pc = "create" \/ ev[r][t].createCalls > 0)
       => /\ ev[r][t].sel # NoRecord
          /\ ev[r][t].manifestRead = "ok"
          /\ ev[r][t].issue # NoIssueContent
          /\ ev[r][t].dedup = "notfound"
          /\ ev[r][t].issue.title \notin preOpen
    /\ (ev[r][t].pc = "send" \/ ev[r][t].chatCalls > 0)
       => ev[r][t].createCalls = 1

\* An evaluation that went through all five gateway calls.
C25_Witness ==
  \E r \in Runs, t \in Tools :
    /\ ev[r][t].pc = "done"
    /\ ev[r][t].manifestRead = "ok"
    /\ ev[r][t].dedup = "notfound"
    /\ ev[r][t].createCalls = 1
    /\ ev[r][t].chatCalls = 1

\* V.latest or some manifest entry of the evaluation is malformed.
MalformedInput(t, e) ==
  \/ ~semverValid(e.sel.latest)
  \/ \E i \in 1..Len(manifest[t]) : ~semverValid(manifest[t][i])

\* C26: an evaluation that has read a manifest while V.latest or a manifest
\* entry is a malformed version has ended in Failed, with no issue created and
\* no chat notification sent.
C26_MalformedVersionAborts ==
  \A r \in Runs, t \in Tools :
    (ev[r][t].manifestRead = "ok" /\ MalformedInput(t, ev[r][t]))
    => /\ ev[r][t].pc = "done"
       /\ ev[r][t].outcome = "Failed"
       /\ ev[r][t].createCalls = 0
       /\ ev[r][t].chatCalls = 0

\* Node failed on a malformed V.latest, Python on a malformed manifest entry.
C26_Witness ==
  /\ ev[1]["Node"].manifestRead = "ok"
  /\ ev[1]["Node"].sel.latest = BadVersion
  /\ manifest["Node"] = <<V10>>
  /\ ev[1]["Node"].outcome = "Failed"
  /\ ev[1]["Python"].manifestRead = "ok"
  /\ ev[1]["Python"].sel.latest = V10
  /\ manifest["Python"] = <<BadVersion, V11>>
  /\ ev[1]["Python"].outcome = "Failed"

\* No version under evaluation exists: the Node/Python filter retains no record
\* of the feed, or the Go feed has fewer than two records.
NoVersionUnderEvaluation(t) ==
  IF t = "Go" THEN Len(feed[t]) < 2
  ELSE RetainedRecords(t, feed[t], now) = {}

\* C27: an evaluation that has fetched its feed and has no version under
\* evaluation has ended in Failed, and has attempted no manifest fetch, dedup
\* lookup, issue creation or chat send.
C27_NoVersionFailsEarly ==
  \A r \in Runs, t \in Tools :
    (ev[r][t].pc \notin {"idle", "feed"} /\ NoVersionUnderEvaluation(t))
    => /\ ev[r][t].pc = "done"
       /\ ev[r][t].outcome = "Failed"
       /\ ev[r][t].sel = NoRecord
       /\ ev[r][t].manifestRead = "none"
       /\ ev[r][t].dedup = "none"
       /\ ev[r][t].createCalls = 0
       /\ ev[r][t].chatCalls = 0

\* Go with a one-record feed and Node with only an expired record have both
\* failed while Python went on to read its manifest.
C27_Witness ==
  /\ Len(feed["Go"]) = 1
  /\ ev[1]["Go"].outcome = "Failed"
  /\ feed["Node"] = <<Rec(V10, Past, Released, "true")>>
  /\ ev[1]["Node"].outcome = "Failed"
  /\ ev[1]["Python"].manifestRead = "ok"

\* C28: two Go feeds that agree on latest and latestReleaseDate of every record
\* and differ only in eol or lts give the same version under evaluation, the
\* same terminal outcome and the same issue title.
C28_GoIgnoresEolAndLts ==
  (probe.kind = "gopair" /\ probe.done)
  => /\ probe.leftEnd.sel.latest = probe.rightEnd.sel.latest
     /\ probe.leftEnd.outcome = probe.rightEnd.outcome
     /\ probe.leftEnd.issue.title = probe.rightEnd.issue.title
     /\ TitleText(probe.leftEnd.issue.title) = TitleText(probe.rightEnd.issue.title)

\* The second record's eol is a near date in one feed and far away or `false`
\* in the other, its lts differs too, and both evaluations created the notice.
C28_Witness ==
  /\ probe.kind = "gopair" /\ probe.done
  /\ Len(probe.left) = 2
  /\ probe.left[2].eol = Near /\ probe.right[2].eol \in {Far, EolFalse}
  /\ probe.left[2].lts # probe.right[2].lts
  /\ probe.leftEnd.outcome = "NotifyCreated"
  /\ probe.leftEnd.issue.label = "deprecation-notice"
  /\ probe.rightEnd.outcome = "NotifyCreated"

TerminalOutcomes == {"NotifySkippedDuplicate", "NotifyCreated", "NoActionNeeded", "Failed"}

\* C29: when every pending gateway call eventually returns or fails, each of the
\* three evaluations reaches a terminal outcome, exactly one (it has none before
\* it ends and never changes it), and the run then ends: main's join has
\* settled and nothing remains to run.
C29_RunTerminates ==
  /\ <>[](RunOver(1) /\ mainPc[1] \in {"resolved", "caught"} /\ ~ENABLED Next)
  /\ [](\A t \in Tools : ev[1][t].pc = "done" <=> ev[1][t].outcome \in TerminalOutcomes)
  /\ [](\A t \in Tools : ev[1][t].pc # "done" => ev[1][t].outcome = "none")
  /\ [][\A t \in Tools : ev[1][t].outcome # "none" => ev'[1][t].outcome = ev[1][t].outcome]_vars

\* A run that ended resolved with three different outcomes reached.
C29_Witness ==
  /\ RunOver(1)
  /\ mainPc[1] = "resolved"
  /\ \E t \in Tools : ev[1][t].outcome = "NoActionNeeded"
  /\ \E t \in Tools : ev[1][t].outcome = "NotifyCreated"
  /\ \A t \in Tools : ev[1][t].outcome \in TerminalOutcomes

\* The evaluation has ended and none of its gateway calls failed.
EndedWithoutGatewayFailure(t, e) ==
  /\ e.pc = "done"
  /\ e.sel = versionClosestToEol(t, feed[t], now)
  /\ e.manifestRead # "failed"
  /\ e.dedup # "error"
  /\ e.created = e.createCalls

\* C30: for fixed feed, manifest and tracker contents, under every interleaving
\* of the three evaluations each tool ends as it does when it runs alone from
\* start to end: the same terminal outcome, the same issue composed, and an
\* issue created exactly when that outcome is NotifyCreated.
C30_InterleavingIndependent ==
  \A t \in Tools :
    EndedWithoutGatewayFailure(t, ev[1][t])
    => LET alone == Evaluate(t, feed[t], manifest[t], preOpen, now)
       IN /\ ev[1][t].outcome = alone.outcome
          /\ ev[1][t].issue = alone.issue
          /\ ev[1][t].created = IF alone.outcome = "NotifyCreated" THEN 1 ELSE 0

\* Node and Python evaluated the same version with the same EOL date, and all
\* three evaluations created their issue.
C30_Witness ==
  /\ RunOver(1)
  /\ \A t \in Tools : EndedWithoutGatewayFailure(t, ev[1][t]) /\ ev[1][t].created = 1
  /\ ev[1]["Node"].sel = ev[1]["Python"].sel
  /\ ev[1]["Node"].issue.label = "deprecation-notice"
  /\ ev[1]["Python"].issue.label = "deprecation-notice"

====
